---- MODULE Spec2Model ----
(***************************************************************************)
(* A model of the calculator of src/src/components/Calculator.tsx: the     *)
(* expression engine (toRPN, evalRPN, formatNumber) and the session state  *)
(* machine of the Calculator component (display, tokens, justEvaluated)    *)
(* with its editing operations.                                            *)
(*                                                                         *)
(* Strings are sequences of one-character strings.  Numbers are exact      *)
(* rationals with a sign kept apart (so that IEEE negative zero exists),   *)
(* plus NaN; the rounding of IEEE doubles is not modelled, and no reachable*)
(* value is large enough to overflow to Infinity.  The runtime's default   *)
(* locale, in which toLocaleString(undefined, ...) writes a number, is an  *)
(* input of the environment: a run is in one of Locales.                   *)
(***************************************************************************)
EXTENDS Integers, Sequences, FiniteSets, TLC

(***************************************************************************)
(* Bounds of the model.                                                    *)
(***************************************************************************)
\* In a free run a digit key is followed only while the buffer it leaves is
\* at most this long.
MaxLen == 2
\* In a free run a buffer is read as a number only while the numerator and
\* the denominator of the number (in lowest terms) are at most this.
MaxMag == 5
\* The digit keys a free run presses.
DigitKeys == {"0", "5"}
\* A scripted run goes on into arithmetic only while the numerator and the
\* denominator of the operand are at most this (products stay within the
\* integers of the model checker).
MaxScriptMag == 10000
\* An engine run is handed at most this many numbers.
MaxOperands == 3
\* A postfix run hands evalRPN at most this many tokens.
MaxPostfixLen == 3
\* The numbers of an engine run's tokens.
NumberPool == {0, 2, 3, 4, 8}
\* The operands a scripted run types.
OperandPool ==
    {<<"0">>, <<"2">>, <<"3">>, <<"4">>, <<".", ".", "5">>,
     <<"5", "0", "0", "0">>}
\* The locales a run may be in: one that groups digits with "," and writes
\* the decimal mark ".", and one that does the reverse.
Locales == {"en-US", "de-DE"}

(***************************************************************************)
(* Characters and strings.                                                 *)
(***************************************************************************)
DigitChars == <<"0", "1", "2", "3", "4", "5", "6", "7", "8", "9">>

IsDigit(c) == \E i \in 1..10 : DigitChars[i] = c

DigitVal(c) == (CHOOSE i \in 1..10 : DigitChars[i] = c) - 1

DigitChar(d) == DigitChars[d + 1]

Includes(s, c) == \E i \in 1..Len(s) : s[i] = c

StartsWith(s, c) == Len(s) >= 1 /\ s[1] = c

ErrorText == <<"E", "r", "r", "o", "r">>

(***************************************************************************)
(* Numbers.                                                                *)
(***************************************************************************)
RECURSIVE GCD(_, _)
GCD(a, b) == IF b = 0 THEN a ELSE GCD(b, a % b)

RECURSIVE Pow10(_)
Pow10(k) == IF k = 0 THEN 1 ELSE 10 * Pow10(k - 1)

NaN == [kind |-> "nan", neg |-> FALSE, num |-> 0, den |-> 1]

Fin(neg, n, d) ==
    LET g == GCD(n, d)
    IN  [kind |-> "fin", neg |-> neg, num |-> n \div g, den |-> d \div g]

isNaN(v) == v.kind = "nan"

isFinite(v) == v.kind = "fin"

IsZero(v) == v.kind = "fin" /\ v.num = 0

Signed(v) == IF v.neg THEN 0 - v.num ELSE v.num

AbsInt(i) == IF i < 0 THEN 0 - i ELSE i

\* a + b on doubles: an exact zero sum is -0 only when both operands are -0.
Add(a, b) ==
    IF isNaN(a) \/ isNaN(b) THEN NaN
    ELSE LET s == Signed(a) * b.den + Signed(b) * a.den
         IN  IF s = 0 THEN Fin(a.neg /\ b.neg, 0, 1)
             ELSE Fin(s < 0, AbsInt(s), a.den * b.den)

Negate(v) == IF isNaN(v) THEN NaN ELSE [v EXCEPT !.neg = ~v.neg]

Sub(a, b) == Add(a, Negate(b))

Mul(a, b) ==
    IF isNaN(a) \/ isNaN(b) THEN NaN
    ELSE Fin(a.neg # b.neg, a.num * b.num, a.den * b.den)

\* a / b for b # 0.
Quot(a, b) ==
    IF isNaN(a) \/ isNaN(b) THEN NaN
    ELSE Fin(a.neg # b.neg, a.num * b.den, a.den * b.num)

(***************************************************************************)
(* parseFloat: the longest prefix that is a decimal literal                *)
(* (sign, digits, '.', digits, exponent); NaN when it has no digit.        *)
(***************************************************************************)
RECURSIVE SkipDigits(_, _)
SkipDigits(s, i) ==
    IF i <= Len(s) /\ IsDigit(s[i]) THEN SkipDigits(s, i + 1) ELSE i

RECURSIVE DigitsValue(_)
DigitsValue(ds) ==
    IF ds = <<>> THEN 0
    ELSE 10 * DigitsValue(SubSeq(ds, 1, Len(ds) - 1)) + DigitVal(ds[Len(ds)])

RECURSIVE StripLeadingZeros(_)
StripLeadingZeros(ds) ==
    IF ds # <<>> /\ ds[1] = "0" THEN StripLeadingZeros(Tail(ds)) ELSE ds

\* Where the digits of an exponent part start, when the "e" is at i.
ExpDigitsStart(s, i) ==
    IF i + 1 <= Len(s) /\ s[i + 1] \in {"-", "+"} THEN i + 2 ELSE i + 1

\* The exponent the string carries at i (0 when it has no exponent part);
\* its digits are s[e0 .. e1 - 1].
ParseExp(s, i, e0, e1) ==
    IF i <= Len(s) /\ s[i] \in {"e", "E"} /\ e1 > e0
    THEN IF s[i + 1] = "-" THEN 0 - DigitsValue(SubSeq(s, e0, e1 - 1))
         ELSE DigitsValue(SubSeq(s, e0, e1 - 1))
    ELSE 0

\* Where the fraction ends, when the integer digits end at i1 - 1.
FracEnd(s, i1) ==
    IF i1 <= Len(s) /\ s[i1] = "." THEN SkipDigits(s, i1 + 1) ELSE i1

\* The pieces parseFloat reads off the string: whether it has a digit, its
\* sign, its mantissa digits, and the power of ten that divides them.  The
\* integer digits are s[i0 .. i1 - 1], the fraction ends at i2 - 1.
PartsAt(s, i0, i1, i2, e0) ==
    [ok    |-> i1 > i0 \/ i2 > i1 + 1,
     neg   |-> StartsWith(s, "-"),
     mant  |-> StripLeadingZeros(SubSeq(s, i0, i1 - 1)
                                 \o SubSeq(s, i1 + 1, i2 - 1)),
     scale |-> (IF i2 > i1 THEN i2 - i1 - 1 ELSE 0)
               - ParseExp(s, i2, e0, SkipDigits(s, e0))]

PartsFromFrac(s, i0, i1, i2) == PartsAt(s, i0, i1, i2, ExpDigitsStart(s, i2))

PartsFromInt(s, i0, i1) == PartsFromFrac(s, i0, i1, FracEnd(s, i1))

PartsFromSign(s, i0) == PartsFromInt(s, i0, SkipDigits(s, i0))

ParseParts(s) ==
    PartsFromSign(s, IF Len(s) >= 1 /\ s[1] \in {"-", "+"} THEN 2 ELSE 1)

\* Whether the value read can be written with the integers of the model
\* checker (nine digits).
RepresentableParts(p) ==
    \/ ~p.ok
    \/ p.mant = <<>>
    \/ /\ Len(p.mant) <= 9
       /\ p.scale <= 9
       /\ Len(p.mant) - p.scale <= 9

Representable(s) == RepresentableParts(ParseParts(s))

ValueOfParts(p) ==
    IF ~p.ok THEN NaN
    ELSE IF p.mant = <<>> THEN Fin(p.neg, 0, 1)
    ELSE IF p.scale >= 0 THEN Fin(p.neg, DigitsValue(p.mant), Pow10(p.scale))
    ELSE Fin(p.neg, DigitsValue(p.mant) * Pow10(0 - p.scale), 1)

parseFloat(s) == ValueOfParts(ParseParts(s))

(***************************************************************************)
(* Digits of a rational: long division, rounding half away from zero.      *)
(***************************************************************************)
RECURSIVE IntDigits(_)
IntDigits(q) ==
    IF q < 10 THEN <<DigitChar(q)>>
    ELSE Append(IntDigits(q \div 10), DigitChar(q % 10))

RECURSIVE FracDigits(_, _, _)
FracDigits(r, d, k) ==
    IF k = 0 THEN <<>>
    ELSE <<DigitChar((r * 10) \div d)>> \o FracDigits((r * 10) % d, d, k - 1)

RECURSIVE FracRem(_, _, _)
FracRem(r, d, k) == IF k = 0 THEN r ELSE FracRem((r * 10) % d, d, k - 1)

RECURSIVE IncDigits(_)
IncDigits(ds) ==
    IF ds = <<>> THEN <<"1">>
    ELSE IF ds[Len(ds)] = "9"
         THEN Append(IncDigits(SubSeq(ds, 1, Len(ds) - 1)), "0")
         ELSE Append(SubSeq(ds, 1, Len(ds) - 1),
                     DigitChar(DigitVal(ds[Len(ds)]) + 1))

\* The digits of n/d rounded to k fraction digits: the integer digits
\* followed by exactly k fraction digits.
RoundedDigits(n, d, k) ==
    IF 2 * FracRem(n % d, d, k) >= d
    THEN IncDigits(IntDigits(n \div d) \o FracDigits(n % d, d, k))
    ELSE IntDigits(n \div d) \o FracDigits(n % d, d, k)

RECURSIVE StripTrailingZeros(_)
StripTrailingZeros(ds) ==
    IF ds # <<>> /\ ds[Len(ds)] = "0"
    THEN StripTrailingZeros(SubSeq(ds, 1, Len(ds) - 1)) ELSE ds

\* The fraction digits of r/d up to the last nonzero one (at most k).
RECURSIVE ExactFrac(_, _, _)
ExactFrac(r, d, k) ==
    IF r = 0 \/ k = 0 THEN <<>>
    ELSE <<DigitChar((r * 10) \div d)>> \o ExactFrac((r * 10) % d, d, k - 1)

(***************************************************************************)
(* formatNumber and the renderings it chooses between.                     *)
(***************************************************************************)
\* Thresholds and digit counts of formatNumber.
LargeExp == 12
SmallExp == 6
ExpFractionDigits == 6
MaxFractionDigits == 10
\* The longest digit string String(n) writes.
MaxStringDigits == 17

\* The default locale of the runtime.
VARIABLE locale

\* Digit grouping and decimal mark of toLocaleString in the locale.
GroupSep == IF locale = "de-DE" THEN "." ELSE ","

DecimalSep == IF locale = "de-DE" THEN "," ELSE "."

RECURSIVE Group(_)
Group(ds) ==
    IF Len(ds) <= 3 THEN ds
    ELSE Group(SubSeq(ds, 1, Len(ds) - 3)) \o <<GroupSep>>
         \o SubSeq(ds, Len(ds) - 2, Len(ds))

SignText(v) == IF v.neg THEN <<"-">> ELSE <<>>

\* The grouped integer digits, and the fraction digits after the decimal
\* mark when there are any.
LocaleParts(int, frac) ==
    Group(int) \o (IF frac = <<>> THEN <<>> ELSE <<DecimalSep>> \o frac)

\* The text of a rounded number: ds are its integer digits followed by
\* MaxFractionDigits fraction digits, whose trailing zeros are not written.
LocaleText(ds) ==
    LocaleParts(SubSeq(ds, 1, Len(ds) - MaxFractionDigits),
                StripTrailingZeros(
                    SubSeq(ds, Len(ds) - MaxFractionDigits + 1, Len(ds))))

\* n.toLocaleString(undefined, { maximumFractionDigits: 10 })
toLocaleString(v) ==
    SignText(v) \o LocaleText(RoundedDigits(v.num, v.den, MaxFractionDigits))

\* The least k with n * 10^k >= d, for 0 < n < d.
RECURSIVE ShiftCount(_, _)
ShiftCount(n, d) == IF n >= d THEN 0 ELSE 1 + ShiftCount(n * 10, d)

\* The decimal exponent of v: the e with 10^e <= v < 10^(e+1).
Exponent10(v) ==
    IF v.num = 0 THEN 0
    ELSE IF v.num >= v.den THEN Len(IntDigits(v.num \div v.den)) - 1
    ELSE 0 - ShiftCount(v.num, v.den)

\* The digits of v / 10^e rounded to ExpFractionDigits fraction digits.
MantissaDigits(v, e) ==
    IF e >= 0 THEN RoundedDigits(v.num, v.den * Pow10(e), ExpFractionDigits)
    ELSE RoundedDigits(v.num * Pow10(0 - e), v.den, ExpFractionDigits)

\* The exponential text for mantissa digits ds and exponent e; a mantissa
\* rounded up to 10 is written as 1 with the next exponent.
ExponentialText(ds, e) ==
    <<ds[1], ".">> \o SubSeq(ds, 2, ExpFractionDigits + 1)
    \o (IF Len(ds) > ExpFractionDigits + 1
        THEN <<"e", IF e + 1 >= 0 THEN "+" ELSE "-">> \o IntDigits(AbsInt(e + 1))
        ELSE <<"e", IF e >= 0 THEN "+" ELSE "-">> \o IntDigits(AbsInt(e)))

ExponentialAt(v, e) == SignText(v) \o ExponentialText(MantissaDigits(v, e), e)

\* n.toExponential(6)
toExponential(v) == ExponentialAt(v, Exponent10(v))

\* abs >= 1e12
AtLeastLarge(v) == Len(IntDigits(v.num \div v.den)) > LargeExp

\* abs !== 0 && abs < 1e-6
BelowSmall(v) == v.num # 0 /\ v.num <= (v.den - 1) \div Pow10(SmallExp)

\* Object.is(n, -0): n = 0
NormalizeZero(n) == IF IsZero(n) THEN Fin(FALSE, 0, 1) ELSE n

FormatFinite(m) ==
    IF AtLeastLarge(m) \/ BelowSmall(m)
    THEN toExponential(m)
    ELSE toLocaleString(m)

formatNumber(n) ==
    IF ~isFinite(n) THEN ErrorText ELSE FormatFinite(NormalizeZero(n))

\* The text of a number below 1 with fraction digits frac, of which sig are
\* those from the first nonzero one on.
SmallText(frac, sig) ==
    IF Len(frac) - Len(sig) < SmallExp
    THEN <<"0", ".">> \o frac
    ELSE <<sig[1]>>
         \o (IF Len(sig) > 1 THEN <<".">> \o Tail(sig) ELSE <<>>)
         \o <<"e", "-">> \o IntDigits(Len(frac) - Len(sig) + 1)

\* The text of a nonzero number with integer part q and fraction digits frac.
PlainText(q, frac) ==
    IF q >= 1
    THEN IntDigits(q) \o (IF frac = <<>> THEN <<>> ELSE <<".">> \o frac)
    ELSE SmallText(frac, StripLeadingZeros(frac))

\* String(n) for a number whose decimal expansion ends (within the
\* MaxStringDigits digits String writes).
NumberToString(v) ==
    IF isNaN(v) THEN <<"N", "a", "N">>
    ELSE IF IsZero(v) THEN <<"0">>
    ELSE SignText(v)
         \o PlainText(v.num \div v.den,
                      ExactFrac(v.num % v.den, v.den, MaxStringDigits))

(***************************************************************************)
(* Tokens.  The operators '×' and '÷' of the source are written "*" and    *)
(* "/".                                                                    *)
(***************************************************************************)
Ops == {"+", "-", "*", "/"}

isOperator(c) == c \in Ops

NumToken(v) == [type |-> "num", value |-> v]

OpToken(o) == [type |-> "op", op |-> o]

(***************************************************************************)
(* toRPN: shunting-yard.                                                   *)
(***************************************************************************)
\* A precedence table that ranks every operator alike.
precFlat(o) == 1

prec(o) == IF o \in {"+", "-"} THEN 1 ELSE 2

\* The inner while loop popping only operators of strictly greater
\* precedence.
RECURSIVE PopWhileStrict(_, _, _)
PopWhileStrict(output, ops, o) ==
    IF ops # <<>> /\ prec(ops[Len(ops)].op) > prec(o)
    THEN PopWhileStrict(Append(output, ops[Len(ops)]),
                        SubSeq(ops, 1, Len(ops) - 1), o)
    ELSE [output |-> output, ops |-> ops]

\* The inner while loop: pops to the output every stacked operator whose
\* precedence is at least that of the incoming one.
RECURSIVE PopWhile(_, _, _)
PopWhile(output, ops, o) ==
    IF ops # <<>> /\ prec(ops[Len(ops)].op) >= prec(o)
    THEN PopWhile(Append(output, ops[Len(ops)]),
                  SubSeq(ops, 1, Len(ops) - 1), o)
    ELSE [output |-> output, ops |-> ops]

\* The final loop as a single test: pops one operator at most.
PopAllOnce(output, ops) ==
    IF ops # <<>> THEN Append(output, ops[Len(ops)]) ELSE output

\* The final while loop: pops what is left on the operator stack.
RECURSIVE PopAll(_, _)
PopAll(output, ops) ==
    IF ops # <<>>
    THEN PopAll(Append(output, ops[Len(ops)]), SubSeq(ops, 1, Len(ops) - 1))
    ELSE output

RECURSIVE RPNLoop(_, _, _, _)
RPNLoop(toks, i, output, ops) ==
    IF i > Len(toks) THEN PopAll(output, ops)
    ELSE LET t == toks[i]
         IN  IF t.type = "num"
             THEN RPNLoop(toks, i + 1, Append(output, t), ops)
             ELSE LET w == PopWhile(output, ops, t.op)
                  IN  RPNLoop(toks, i + 1, w.output, Append(w.ops, t))

toRPN(toks) == RPNLoop(toks, 1, <<>>, <<>>)

(***************************************************************************)
(* evalRPN: reduction on a value stack.                                    *)
(***************************************************************************)
\* The switch with a division that yields zero, not NaN, for a zero divisor.
ApplyOpZero(o, a, b) ==
    CASE o = "+" -> Add(a, b)
      [] o = "-" -> Sub(a, b)
      [] o = "*" -> Mul(a, b)
      [] o = "/" -> IF IsZero(b) THEN Fin(FALSE, 0, 1) ELSE Quot(a, b)

ApplyOp(o, a, b) ==
    CASE o = "+" -> Add(a, b)
      [] o = "-" -> Sub(a, b)
      [] o = "*" -> Mul(a, b)
      [] o = "/" -> IF IsZero(b) THEN NaN ELSE Quot(a, b)

\* The loop passing over an operator that finds fewer than two values.
RECURSIVE EvalLoopSkip(_, _, _)
EvalLoopSkip(rpn, i, stack) ==
    IF i > Len(rpn) THEN (IF stack # <<>> THEN stack[1] ELSE NaN)
    ELSE IF rpn[i].type = "num"
    THEN EvalLoopSkip(rpn, i + 1, Append(stack, rpn[i].value))
    ELSE IF Len(stack) < 2 THEN EvalLoopSkip(rpn, i + 1, stack)
    ELSE EvalLoopSkip(rpn, i + 1,
                      Append(SubSeq(stack, 1, Len(stack) - 2),
                             ApplyOp(rpn[i].op, stack[Len(stack) - 1],
                                     stack[Len(stack)])))

RECURSIVE EvalLoop(_, _, _)
EvalLoop(rpn, i, stack) ==
    IF i > Len(rpn) THEN (IF stack # <<>> THEN stack[1] ELSE NaN)
    ELSE LET t == rpn[i]
         IN  IF t.type = "num"
             THEN EvalLoop(rpn, i + 1, Append(stack, t.value))
             ELSE IF Len(stack) < 2 THEN NaN
             ELSE LET b == stack[Len(stack)]
                      a == stack[Len(stack) - 1]
                  IN  EvalLoop(rpn, i + 1,
                               Append(SubSeq(stack, 1, Len(stack) - 2),
                                      ApplyOp(t.op, a, b)))

evalRPN(rpn) == EvalLoop(rpn, 1, <<>>)

(***************************************************************************)
(* The session and its editing operations, as functions from the session   *)
(* before an event to the session after it.                                *)
(***************************************************************************)
InitSession == [display |-> <<"0">>, tokens |-> <<>>, justEvaluated |-> FALSE]

LastIsOp(toks) == toks # <<>> /\ toks[Len(toks)].type = "op"

DropLast(s) == SubSeq(s, 1, Len(s) - 1)

inputDigit(s, d) ==
    IF s.justEvaluated
    THEN [s EXCEPT !.display = <<d>>, !.justEvaluated = FALSE]
    ELSE IF s.display = <<"0">> THEN [s EXCEPT !.display = <<d>>]
    ELSE IF s.display = <<"-", "0">> THEN [s EXCEPT !.display = <<"-", d>>]
    ELSE [s EXCEPT !.display = Append(s.display, d)]

\* inputDecimal without the test for a decimal point already there.
inputDecimalAlways(s) ==
    IF s.justEvaluated
    THEN [s EXCEPT !.display = <<"0", ".">>, !.justEvaluated = FALSE]
    ELSE [s EXCEPT !.display = Append(s.display, ".")]

inputDecimal(s) ==
    IF s.justEvaluated
    THEN [s EXCEPT !.display = <<"0", ".">>, !.justEvaluated = FALSE]
    ELSE IF ~Includes(s.display, ".")
    THEN [s EXCEPT !.display = Append(s.display, ".")]
    ELSE s

clearAll(s) == [display |-> <<"0">>, tokens |-> <<>>, justEvaluated |-> FALSE]

\* backspace without the test of justEvaluated.
backspaceTrim(s) ==
    [s EXCEPT !.display =
        IF Len(s.display) > 1 /\ DropLast(s.display) # <<"-">>
        THEN DropLast(s.display) ELSE <<"0">>,
              !.justEvaluated = FALSE]

backspace(s) ==
    IF s.justEvaluated
    THEN [s EXCEPT !.display = <<"0">>, !.justEvaluated = FALSE]
    ELSE LET next == IF Len(s.display) > 1 THEN DropLast(s.display)
                     ELSE <<"0">>
         IN  [s EXCEPT !.display = IF next = <<"-">> THEN <<"0">> ELSE next]

\* toggleSign that always puts a '-' in front.
toggleSignPrepend(s) ==
    IF s.display = <<"0">> THEN s
    ELSE [s EXCEPT !.display = <<"-">> \o s.display]

toggleSign(s) ==
    IF StartsWith(s.display, "-") THEN [s EXCEPT !.display = Tail(s.display)]
    ELSE IF s.display = <<"0">> THEN s
    ELSE [s EXCEPT !.display = <<"-">> \o s.display]

Hundred == Fin(FALSE, 100, 1)

\* String(v / 100), or the buffer as it is when v is NaN.
PercentText(disp, v) ==
    IF isNaN(v) THEN disp ELSE NumberToString(Quot(v, Hundred))

\* percent that also resets justEvaluated, as the entry operations do.
percentResets(s) ==
    [s EXCEPT !.display = PercentText(s.display, parseFloat(s.display)),
              !.justEvaluated = FALSE]

percent(s) == [s EXCEPT !.display = PercentText(s.display, parseFloat(s.display))]

\* if (!isNaN(v)) arr.push({ type: 'num', value: v })
PushNumber(arr, v) == IF ~isNaN(v) THEN Append(arr, NumToken(v)) ELSE arr

\* The number token pushed for the display, when it parses.
pushNumberFromDisplay(arr, disp) == PushNumber(arr, parseFloat(disp))

\* inputOperator pushing the operator after a trailing operator, where the
\* code overwrites it.
inputOperatorPush(s, o) ==
    IF LastIsOp(s.tokens)
    THEN [s EXCEPT !.tokens = Append(s.tokens, OpToken(o))]
    ELSE [display |-> <<"0">>,
          tokens |-> Append(pushNumberFromDisplay(s.tokens, s.display),
                            OpToken(o)),
          justEvaluated |-> FALSE]

\* inputOperator without setJustEvaluated(false).
inputOperatorKeepFlag(s, o) ==
    IF LastIsOp(s.tokens)
    THEN [s EXCEPT !.tokens = Append(DropLast(s.tokens), OpToken(o))]
    ELSE [display |-> <<"0">>,
          tokens |-> Append(pushNumberFromDisplay(s.tokens, s.display),
                            OpToken(o)),
          justEvaluated |-> s.justEvaluated]

\* inputOperator without the branch that replaces a trailing operator.
inputOperatorAppend(s, o) ==
    [display |-> <<"0">>,
     tokens |-> Append(pushNumberFromDisplay(s.tokens, s.display), OpToken(o)),
     justEvaluated |-> FALSE]

inputOperator(s, o) ==
    IF LastIsOp(s.tokens)
    THEN [s EXCEPT !.tokens = Append(DropLast(s.tokens), OpToken(o))]
    ELSE [display |-> <<"0">>,
          tokens |-> Append(pushNumberFromDisplay(s.tokens, s.display),
                            OpToken(o)),
          justEvaluated |-> FALSE]

\* if (seq.length && seq[seq.length - 1].type === 'op') seq.pop()
DropTrailingOp(seq) == IF LastIsOp(seq) THEN DropLast(seq) ELSE seq

\* The session after evaluate, for the sequence seq to evaluate.
EvaluateSeq(s, seq) ==
    IF seq = <<>>
    THEN [s EXCEPT !.tokens = <<>>, !.justEvaluated = TRUE]
    ELSE [display |-> formatNumber(evalRPN(toRPN(seq))),
          tokens |-> <<>>,
          justEvaluated |-> TRUE]

\* evaluate that returns at once when nothing is pending.
evaluateUnlessEmpty(s) ==
    IF s.tokens = <<>> THEN [s EXCEPT !.justEvaluated = TRUE]
    ELSE EvaluateSeq(s, DropTrailingOp(pushNumberFromDisplay(s.tokens,
                                                             s.display)))

evaluate(s) ==
    EvaluateSeq(s, DropTrailingOp(pushNumberFromDisplay(s.tokens, s.display)))

(***************************************************************************)
(* Keys: the buttons of the keypad and the keyboard handler both map a key *)
(* to one editing operation.  "back" is the backspace key and "sign" the   *)
(* sign toggle.                                                            *)
(***************************************************************************)
Handle(s, k) ==
    CASE IsDigit(k)   -> inputDigit(s, k)
      [] k = "."      -> inputDecimal(s)
      [] k = "C"      -> clearAll(s)
      [] k = "sign"   -> toggleSign(s)
      [] k = "%"      -> percent(s)
      [] k = "back"   -> backspace(s)
      [] k = "="      -> evaluate(s)
      [] isOperator(k) -> inputOperator(s, k)

(***************************************************************************)
(* State.                                                                  *)
(***************************************************************************)
VARIABLES
    display,        \* useState('0'): the display buffer
    tokens,         \* useState<Token[]>([]): the pending token sequence
    justEvaluated,  \* useState(false)
    lastKey,        \* the key of the last event ("none" before the first)
    prev,           \* the session before the last event
    input,          \* engine run: the infix tokens handed to toRPN
    rpn,            \* engine run: what toRPN returned
    result,         \* engine run: what evalRPN returned
    text,           \* engine run: what formatNumber returned
    phase,          \* engine or postfix run: how far the run has got
    family,         \* scripted run: the shape of the key sequence
    args,           \* scripted run: its operands and operators
    pos             \* scripted run: keys pressed so far

sessionVars == <<display, tokens, justEvaluated, lastKey, prev>>
engineVars == <<input, rpn, result, text, phase>>
scriptVars == <<family, args, pos>>
vars == <<locale, sessionVars, engineVars, scriptVars>>

Session ==
    [display |-> display, tokens |-> tokens, justEvaluated |-> justEvaluated]

SessionInit ==
    /\ display = InitSession.display
    /\ tokens = InitSession.tokens
    /\ justEvaluated = InitSession.justEvaluated
    /\ lastKey = "none"
    /\ prev = InitSession

EngineIdle ==
    /\ input = <<>>
    /\ rpn = <<>>
    /\ result = NaN
    /\ text = <<>>
    /\ phase = "idle"

ScriptIdle ==
    /\ family = "none"
    /\ args = <<>>
    /\ pos = 0

(***************************************************************************)
(* The session machine: one action per editing operation, each the whole   *)
(* event handler.                                                          *)
(***************************************************************************)
SetSession(n, k) ==
    /\ display' = n.display
    /\ tokens' = n.tokens
    /\ justEvaluated' = n.justEvaluated
    /\ lastKey' = k
    /\ prev' = Session
    /\ UNCHANGED <<locale, engineVars>>

Press(k) == SetSession(Handle(Session, k), k)

\* The value is a number of magnitude at most m, or NaN.
AtMost(v, m) == isNaN(v) \/ (v.num <= m /\ v.den <= m)

\* The buffer's value is one that is followed into arithmetic: it can be
\* written with the integers of the model checker and is at most m.
Followed(disp, m) == Representable(disp) /\ AtMost(parseFloat(disp), m)

WithinModel(disp) == Followed(disp, MaxMag)

\* A free run: neither an engine run nor a scripted run.
FreeRun == phase = "idle" /\ family = "none"

\* The buffer after the key is within MaxLen, or no longer than before.
FitsBuffer(k) ==
    \/ Len(Handle(Session, k).display) <= MaxLen
    \/ Len(Handle(Session, k).display) <= Len(display)

InputDigit(d) ==
    /\ FreeRun
    /\ FitsBuffer(d)
    /\ Press(d)
    /\ UNCHANGED scriptVars

\* A buffer takes one decimal point at most, so this key needs no bound.
InputDecimal ==
    /\ FreeRun
    /\ Press(".")
    /\ UNCHANGED scriptVars

ClearAll == FreeRun /\ Press("C") /\ UNCHANGED scriptVars

Backspace == FreeRun /\ Press("back") /\ UNCHANGED scriptVars

ToggleSign == FreeRun /\ Press("sign") /\ UNCHANGED scriptVars

Percent ==
    /\ FreeRun
    /\ WithinModel(display)
    /\ Press("%")
    /\ UNCHANGED scriptVars

InputOperator(o) ==
    /\ FreeRun
    /\ LastIsOp(tokens) \/ WithinModel(display)
    /\ Press(o)
    /\ UNCHANGED scriptVars

Evaluate ==
    /\ FreeRun
    /\ WithinModel(display)
    /\ Press("=")
    /\ UNCHANGED scriptVars

(***************************************************************************)
(* Engine runs: toRPN, evalRPN and formatNumber applied in turn to a       *)
(* well-formed infix sequence (numbers and operators alternating, a number *)
(* first and last).                                                        *)
(***************************************************************************)
Num(n) == Fin(FALSE, n, 1)

InfixOf(ns, os) ==
    [i \in 1..(2 * Len(ns) - 1) |->
        IF i % 2 = 1 THEN NumToken(Num(ns[(i + 1) \div 2]))
        ELSE OpToken(os[i \div 2])]

EngineInit ==
    /\ \E k \in 1..MaxOperands :
         \E ns \in [1..k -> NumberPool], os \in [1..(k - 1) -> Ops] :
            input = InfixOf(ns, os)
    /\ rpn = <<>>
    /\ result = NaN
    /\ text = <<>>
    /\ phase = "input"

Convert ==
    /\ phase = "input"
    /\ rpn' = toRPN(input)
    /\ phase' = "converted"
    /\ UNCHANGED <<input, result, text, locale, sessionVars, scriptVars>>

Reduce ==
    /\ phase = "converted"
    /\ result' = evalRPN(rpn)
    /\ phase' = "evaluated"
    /\ UNCHANGED <<input, rpn, text, locale, sessionVars, scriptVars>>

Format ==
    /\ phase = "evaluated"
    /\ text' = formatNumber(result)
    /\ phase' = "formatted"
    /\ UNCHANGED <<input, rpn, result, locale, sessionVars, scriptVars>>

(***************************************************************************)
(* Postfix runs: evalRPN applied to any sequence of tokens, well-formed    *)
(* postfix or not.                                                         *)
(***************************************************************************)
TokenPool ==
    {NumToken(Num(n)) : n \in NumberPool} \cup {OpToken(o) : o \in Ops}

PostfixInit ==
    /\ input = <<>>
    /\ \E k \in 0..MaxPostfixLen : rpn \in [1..k -> TokenPool]
    /\ result = NaN
    /\ text = <<>>
    /\ phase = "postfix"

ReducePostfix ==
    /\ phase = "postfix"
    /\ result' = evalRPN(rpn)
    /\ phase' = "reduced"
    /\ UNCHANGED <<input, rpn, text, locale, sessionVars, scriptVars>>

(***************************************************************************)
(* Scripted runs: a key sequence of a given shape pressed from the initial *)
(* session, every key through the same handlers.                           *)
(***************************************************************************)
Families == {"binary", "replace", "expr", "single", "chain", "dangling"}

Script(f, a) ==
    CASE f = "binary"  -> a.a \o <<a.op1>> \o a.b \o <<"=">>
      [] f = "replace" -> a.a \o <<a.op1, a.op2>> \o a.b \o <<"=">>
      [] f = "expr"    -> a.a \o <<a.op1>> \o a.b \o <<a.op2>> \o a.c \o <<"=">>
      [] f = "single"  -> a.a \o <<"=", a.op2>> \o a.c \o <<"=">>
      [] f = "chain"   -> a.a \o <<a.op1>> \o a.b \o <<"=", a.op2>> \o a.c
                          \o <<"=">>
      [] f = "dangling" -> a.a \o <<a.op1, "=">>
      [] OTHER         -> <<>>

\* The fields a family does not use are held at one value.
ScriptArgs(f) ==
    {a \in [a : OperandPool, b : OperandPool, c : OperandPool,
            op1 : Ops, op2 : Ops] :
        /\ f \in {"binary", "replace", "dangling"} => a.c = <<"0">>
        /\ f \in {"binary", "dangling"} => a.op2 = "+"
        /\ f = "dangling" => a.b = <<"0">>
        /\ f = "single" => a.b = <<"0">> /\ a.op1 = "+"}

ScriptInit ==
    /\ family \in Families
    /\ args \in ScriptArgs(family)
    /\ pos = 0

\* The key reads the buffer as a number.
KeyParses(s, k) ==
    k \in {"%", "="} \/ (isOperator(k) /\ ~LastIsOp(s.tokens))

ScriptKey(k) ==
    /\ KeyParses(Session, k) => Followed(display, MaxScriptMag)
    /\ Press(k)

ScriptStep ==
    /\ pos < Len(Script(family, args))
    /\ ScriptKey(Script(family, args)[pos + 1])
    /\ pos' = pos + 1
    /\ UNCHANGED <<family, args>>

ScriptDone == family # "none" /\ pos = Len(Script(family, args))

\* The session a key sequence leads to.
RECURSIVE Run(_, _)
Run(keys, s) == IF keys = <<>> THEN s ELSE Run(Tail(keys), Handle(s, Head(keys)))

(***************************************************************************)
(* The specification: a run is a free run of the session machine, an       *)
(* engine run, a postfix run or a scripted run, in one of the locales.     *)
(***************************************************************************)
Init ==
    /\ locale \in Locales
    /\ SessionInit
    /\ \/ EngineIdle /\ ScriptIdle
       \/ EngineInit /\ ScriptIdle
       \/ PostfixInit /\ ScriptIdle
       \/ EngineIdle /\ ScriptInit

Next ==
    \/ \E d \in DigitKeys : InputDigit(d)
    \/ InputDecimal
    \/ ClearAll
    \/ Backspace
    \/ ToggleSign
    \/ Percent
    \/ \E o \in Ops : InputOperator(o)
    \/ Evaluate
    \/ Convert
    \/ Reduce
    \/ Format
    \/ ReducePostfix
    \/ ScriptStep

Spec == Init /\ [][Next]_vars

(***************************************************************************)
(* Reference semantics of an infix expression, computed on the expression  *)
(* itself: a sum of terms, each term a chain of multiplications and        *)
(* divisions done left to right.                                           *)
(***************************************************************************)
RefOp(o, a, b) ==
    CASE o = "+" -> Add(a, b)
      [] o = "-" -> Sub(a, b)
      [] o = "*" -> Mul(a, b)
      [] o = "/" -> Quot(a, b)

\* The index of the last number of the term that starts at i.
RECURSIVE TermEnd(_, _)
TermEnd(toks, i) ==
    IF i + 1 <= Len(toks) /\ toks[i + 1].op \in {"*", "/"}
    THEN TermEnd(toks, i + 2) ELSE i

\* The value of the term toks[i .. j].
RECURSIVE TermValue(_, _, _)
TermValue(toks, i, j) ==
    IF j = i THEN toks[i].value
    ELSE RefOp(toks[j - 1].op, TermValue(toks, i, j - 2), toks[j].value)

\* The sum continued from the operator at i, acc being the sum so far.
RECURSIVE SumFrom(_, _, _)
SumFrom(toks, i, acc) ==
    IF i > Len(toks) THEN acc
    ELSE SumFrom(toks, TermEnd(toks, i + 1) + 1,
                 RefOp(toks[i].op, acc,
                       TermValue(toks, i + 1, TermEnd(toks, i + 1))))

RefEval(toks) ==
    SumFrom(toks, TermEnd(toks, 1) + 1, TermValue(toks, 1, TermEnd(toks, 1)))

\* Some division of the sequence has a right operand that is zero.
HasDivByZero(toks) ==
    \E i \in 1..(Len(toks) - 1) :
        /\ toks[i].type = "op"
        /\ toks[i].op = "/"
        /\ IsZero(toks[i + 1].value)

\* The engine run has evaluated its input.
EngineEvaluated == phase \in {"evaluated", "formatted"}

\* The number an operand's keys type into a fresh buffer.
OperandValue(keys) == parseFloat(Run(keys, InitSession).display)

\* The expression a scripted run of family "expr" enters.
ExprOf(a) ==
    <<NumToken(OperandValue(a.a)), OpToken(a.op1),
      NumToken(OperandValue(a.b)), OpToken(a.op2),
      NumToken(OperandValue(a.c))>>

(***************************************************************************)
(* Properties.                                                             *)
(***************************************************************************)

\* C1: entering a, op1, b, op2, c, evaluate from the initial state displays
\* the value of a op1 b op2 c under operator precedence (the expression has
\* no division by zero).
C1_ExpressionValue ==
    (family = "expr" /\ ScriptDone /\ ~HasDivByZero(ExprOf(args)))
        => display = formatNumber(RefEval(ExprOf(args)))

\* C2: for a well-formed infix sequence with no division by zero,
\* evalRPN(toRPN(tokens)) is the reference value, in which every
\* multiplication and division is applied before an adjacent addition or
\* subtraction.
C2_PrecedenceValue ==
    (EngineEvaluated /\ ~HasDivByZero(input)) => result = RefEval(input)

\* C2 case: [2, +, 3, *, 4] has been evaluated, to 14.
C2_Witness ==
    /\ phase = "evaluated"
    /\ input = InfixOf(<<2, 3, 4>>, <<"+", "*">>)
    /\ result = Num(14)

C4_DivisionByZero ==
    /\ (EngineEvaluated /\ HasDivByZero(input)) => isNaN(result)
    /\ (phase = "formatted" /\ HasDivByZero(input)) => text = ErrorText
    /\ (/\ family = "binary"
        /\ ScriptDone
        /\ args.op1 = "/"
        /\ IsZero(OperandValue(args.b))) => display = ErrorText

\* C4 case: 4, /, 0, evaluate has been entered and the display is "Error".
C4_Witness ==
    /\ family = "binary"
    /\ ScriptDone
    /\ args.a = <<"4">>
    /\ args.op1 = "/"
    /\ args.b = <<"0">>
    /\ display = ErrorText

\* C5: the keys a, op1, op2, b, evaluate end in the session that the keys
\* a, op2, b, evaluate end in.
C5_OperatorReplacement ==
    (family = "replace" /\ ScriptDone)
        => Session = Run(args.a \o <<args.op2>> \o args.b \o <<"=">>,
                         InitSession)

\* C5 case: 4, +, *, 3, evaluate has been entered and the display is 12.
C5_Witness ==
    /\ family = "replace"
    /\ ScriptDone
    /\ args.a = <<"4">>
    /\ args.op1 = "+"
    /\ args.op2 = "*"
    /\ args.b = <<"3">>
    /\ display = <<"1", "2">>

(***************************************************************************)
(* What a display text shows.                                              *)
(***************************************************************************)
\* The text with the locale's digit grouping taken out and its decimal mark
\* written ".": the numeral that a formatted number shows.
RECURSIVE Ungroup(_)
Ungroup(s) ==
    IF s = <<>> THEN <<>>
    ELSE IF Head(s) = GroupSep THEN Ungroup(Tail(s))
    ELSE <<IF Head(s) = DecimalSep THEN "." ELSE Head(s)>> \o Ungroup(Tail(s))

\* How many times the character occurs in the text.
RECURSIVE Count(_, _)
Count(s, c) ==
    IF s = <<>> THEN 0
    ELSE (IF Head(s) = c THEN 1 ELSE 0) + Count(Tail(s), c)

\* The text without its leading '-', when it has one.
Unsigned(s) == IF StartsWith(s, "-") THEN Tail(s) ELSE s

\* Digits and decimal points only.
DigitsAndPoints(s) == \A i \in 1..Len(s) : IsDigit(s[i]) \/ s[i] = "."

\* Digits, decimal points and commas, then possibly an exponent part: "e",
\* an optional sign, digits and decimal points.
NumeralText(s) ==
    \E k \in 0..Len(s) :
        /\ \A i \in 1..k : IsDigit(s[i]) \/ s[i] \in {".", ","}
        /\ k < Len(s) => s[k + 1] = "e"
        /\ \A i \in (k + 2)..Len(s) :
              \/ IsDigit(s[i])
              \/ s[i] = "."
              \/ i = k + 2 /\ s[i] \in {"+", "-"}

InfinityText == <<"I", "n", "f", "i", "n", "i", "t", "y">>

\* A nonempty prefix of "Infinity" followed by digits and decimal points.
InfinityPrefixText(s) ==
    \E k \in 1..Len(InfinityText) :
        /\ k <= Len(s)
        /\ SubSeq(s, 1, k) = SubSeq(InfinityText, 1, k)
        /\ DigitsAndPoints(SubSeq(s, k + 1, Len(s)))

\* The keys of a scripted run of family "chain" or "single" up to and
\* including its first evaluate.
FirstEvaluateKeys ==
    IF family = "chain"
    THEN args.a \o <<args.op1>> \o args.b \o <<"=">>
    ELSE args.a \o <<"=">>

\* The text that first evaluate displays.
ResultShown == Run(FirstEvaluateKeys, InitSession).display

\* The displayed result is a number the model can read exactly.
ResultReadable ==
    /\ Unsigned(ResultShown) # ErrorText
    /\ Representable(Ungroup(ResultShown))
    /\ AtMost(parseFloat(Ungroup(ResultShown)), MaxScriptMag)

\* C6: after an evaluate that displays the result R, an operator entry makes
\* the pending sequence [R, op] with exactly the value displayed, and a
\* following operand b and evaluate display R op b.
C6_Chaining ==
    /\ (/\ family \in {"chain", "single"}
        /\ pos = Len(FirstEvaluateKeys) + 1
        /\ ResultReadable)
          => tokens = <<NumToken(parseFloat(Ungroup(ResultShown))),
                        OpToken(args.op2)>>
    /\ (/\ family \in {"chain", "single"}
        /\ ScriptDone
        /\ ResultReadable)
          => display = formatNumber(ApplyOp(args.op2,
                                            parseFloat(Ungroup(ResultShown)),
                                            OperandValue(args.c)))

\* C7 as stated: evaluate with nothing pending sets the flag and leaves the
\* display buffer and the pending sequence as they were.
C7_EvaluateNoOp ==
    (lastKey = "=" /\ prev.tokens = <<>>)
        => /\ justEvaluated
           /\ display = prev.display
           /\ tokens = prev.tokens

\* C7 as amended: evaluate with nothing pending sets the flag and leaves the
\* pending sequence empty; a buffer that reads as no number stays as it is,
\* and any other buffer is replaced by formatNumber of the number it reads
\* as.
C7_EvaluateReformats ==
    (lastKey = "=" /\ prev.tokens = <<>>)
        => /\ justEvaluated
           /\ tokens = <<>>
           /\ display = IF isNaN(parseFloat(prev.display)) THEN prev.display
                        ELSE formatNumber(parseFloat(prev.display))

\* C7 case: evaluate on the buffer "0." with nothing pending, which leaves
\* "0" in the display.
C7_Witness ==
    /\ lastKey = "="
    /\ prev.tokens = <<>>
    /\ prev.display = <<"0", ".">>
    /\ display = <<"0">>
    /\ justEvaluated

\* C8 as stated: the display buffer holds at most one decimal point, and
\* inputDecimal on a buffer that has one (flag false) leaves the session
\* unchanged.
C8_OneDecimalPoint ==
    /\ Count(display, ".") <= 1
    /\ (lastKey = "." /\ ~prev.justEvaluated /\ Includes(prev.display, "."))
          => Session = prev

\* C8 as amended: the display buffer holds more than one '.' only as the
\* result of an evaluate (flag true) in a locale that groups digits with
\* '.', and inputDecimal on a buffer that has one (flag false) leaves the
\* session unchanged.
C8_OnePointUnlessGrouped ==
    /\ Count(display, ".") > 1 => (GroupSep = "." /\ justEvaluated)
    /\ (lastKey = "." /\ ~prev.justEvaluated /\ Includes(prev.display, "."))
          => Session = prev

\* C8 case: "." pressed on the buffer "0." with the flag false, which leaves
\* "0.".
C8_Witness ==
    /\ lastKey = "."
    /\ ~prev.justEvaluated
    /\ prev.display = <<"0", ".">>
    /\ display = <<"0", ".">>

\* C9 as stated: the display buffer is an optional leading '-' followed only
\* by digits and decimal points.
C9_DigitsAndPoints == DigitsAndPoints(Unsigned(display))

\* C9 as amended: the display buffer is an optional leading '-' followed by
\* "Error", by a numeral of digits, '.' and ',' with an optional exponent
\* part, or by a prefix of "Infinity" and then digits and '.'.
C9_DisplayGrammar ==
    \/ Unsigned(display) = ErrorText
    \/ NumeralText(Unsigned(display))
    \/ InfinityPrefixText(Unsigned(display))

\* C9 case: the sign toggled on a displayed "Error".
C9_Witness == lastKey = "sign" /\ display = <<"-">> \o ErrorText

\* C10: backspace leaves the pending sequence as it was; with the flag true
\* it sets the display to "0" and the flag to false; with the flag false it
\* drops the last character, and the display is "0" when that would leave
\* nothing or just "-".
C10_Backspace ==
    lastKey = "back"
        => /\ tokens = prev.tokens
           /\ ~justEvaluated
           /\ prev.justEvaluated => display = <<"0">>
           /\ ~prev.justEvaluated
                => display = IF \/ Len(prev.display) <= 1
                                \/ DropLast(prev.display) = <<"-">>
                             THEN <<"0">>
                             ELSE DropLast(prev.display)

\* C10 case: backspace on a displayed result of several characters, which
\* leaves "0".
C10_Witness ==
    /\ lastKey = "back"
    /\ prev.justEvaluated
    /\ Len(prev.display) > 1
    /\ display = <<"0">>

\* C11: the pending token sequence never has two adjacent tokens of the same
\* kind (two numbers or two operators in a row).
C11_NoAdjacentSameKind ==
    \A i \in 1..(Len(tokens) - 1) : tokens[i].type # tokens[i + 1].type

\* C11 case: an operator entered on a pending [number, operator], which
\* leaves [number, operator] with the new operator.
C11_Witness ==
    /\ isOperator(lastKey)
    /\ Len(prev.tokens) = 2
    /\ prev.tokens[2].op # lastKey
    /\ tokens = <<prev.tokens[1], OpToken(lastKey)>>

\* The number of values on the stack once the postfix tokens from i on are
\* consumed, d being the number before them; -1 when an operator finds
\* fewer than two values.
RECURSIVE StackDepth(_, _, _)
StackDepth(seq, i, d) ==
    IF i > Len(seq) THEN d
    ELSE IF seq[i].type = "num" THEN StackDepth(seq, i + 1, d + 1)
    ELSE IF d < 2 THEN 0 - 1
    ELSE StackDepth(seq, i + 1, d - 1)

\* C12: evalRPN returns NaN for every postfix sequence that leaves no value
\* or more than one value on the stack.
C12_NaNUnlessOneValue ==
    (/\ phase = "reduced"
     /\ StackDepth(rpn, 1, 0) >= 0
     /\ StackDepth(rpn, 1, 0) # 1) => isNaN(result)

\* C13: when the display buffer does not read as a number, inputOperator and
\* percent leave the display buffer, the pending sequence and the flag as
\* they were.
C13_UnparsedNoOp ==
    (/\ isOperator(lastKey) \/ lastKey = "%"
     /\ Representable(prev.display)
     /\ isNaN(parseFloat(prev.display))) => Session = prev

\* C14 as stated: inputOperator in a state with just-evaluated true leaves
\* just-evaluated true.
C14_OperatorKeepsFlag ==
    (isOperator(lastKey) /\ prev.justEvaluated) => justEvaluated

\* C14 as amended: after inputOperator just-evaluated is false, whatever it
\* was before.
C14_OperatorClearsFlag == isOperator(lastKey) => ~justEvaluated

\* C14 case: an operator entered in a state with just-evaluated true.
C14_Witness ==
    /\ isOperator(lastKey)
    /\ prev.justEvaluated
    /\ ~justEvaluated
    /\ tokens # <<>>

\* C15: a, op, evaluate, with no operand typed after the operator, displays
\* a for every operator.
C15_DanglingOperator ==
    (family = "dangling" /\ ScriptDone)
        => display = formatNumber(OperandValue(args.a))

\* How many times the token occurs in the sequence.
TokCount(seq, t) == Cardinality({i \in 1..Len(seq) : seq[i] = t})

\* How many of the first k tokens are numbers.
NumsIn(seq, k) == Cardinality({i \in 1..k : seq[i].type = "num"})

IsNumToken(t) == t.type = "num"

\* The toRPN of the engine run has returned.
EngineConverted == phase \in {"converted", "evaluated", "formatted"}

\* C16: for a well-formed infix sequence the output of toRPN is a
\* permutation of the input, with the numbers in their input order; every
\* prefix of it has more numbers than operators and the whole has exactly
\* one more, so that evalRPN never finds fewer than two values and ends with
\* one value.
C16_ValidPostfix ==
    EngineConverted
        => /\ Len(rpn) = Len(input)
           /\ \A i \in 1..Len(input) :
                 TokCount(rpn, input[i]) = TokCount(input, input[i])
           /\ SelectSeq(rpn, IsNumToken) = SelectSeq(input, IsNumToken)
           /\ \A k \in 1..Len(rpn) : NumsIn(rpn, k) > k - NumsIn(rpn, k)
           /\ 2 * NumsIn(rpn, Len(rpn)) = Len(rpn) + 1
           /\ StackDepth(rpn, 1, 0) = 1

\* C16 case: [2, +, 3, *, 4] has been converted, to [2, 3, 4, *, +].
C16_Witness ==
    /\ phase = "converted"
    /\ input = InfixOf(<<2, 3, 4>>, <<"+", "*">>)
    /\ rpn = <<NumToken(Num(2)), NumToken(Num(3)), NumToken(Num(4)),
               OpToken("*"), OpToken("+")>>

\* C17: evalRPN returns NaN for every postfix sequence in which an operator
\* finds fewer than two values; evaluate on a pending sequence that starts
\* with an operator, with an operand in the buffer, displays "Error".
C17_UnderflowIsNaN ==
    /\ (phase = "reduced" /\ StackDepth(rpn, 1, 0) < 0) => isNaN(result)
    /\ (/\ lastKey = "="
        /\ prev.tokens # <<>>
        /\ prev.tokens[1].type = "op"
        /\ ~isNaN(parseFloat(prev.display))) => display = ErrorText

\* C17 case: evaluate on the pending sequence [+] with 5 in the buffer.
C17_Witness ==
    /\ lastKey = "="
    /\ prev.tokens = <<OpToken("+")>>
    /\ prev.display = <<"5">>
    /\ display = ErrorText

\* C18: the pending sequence is empty, one operator, or a number and an
\* operator; an operator entered on a non-empty sequence replaces its
\* trailing operator and leaves the buffer as it is.
C18_AtMostTwoTokens ==
    /\ \/ tokens = <<>>
       \/ Len(tokens) = 1 /\ tokens[1].type = "op"
       \/ Len(tokens) = 2 /\ tokens[1].type = "num" /\ tokens[2].type = "op"
    /\ (isOperator(lastKey) /\ prev.tokens # <<>>)
          => /\ tokens = Append(DropLast(prev.tokens), OpToken(lastKey))
             /\ display = prev.display

\* C18 case: an operator entered after [number, operator] and a typed 5,
\* which replaces the operator and keeps the 5 in the buffer.
C18_Witness ==
    /\ isOperator(lastKey)
    /\ Len(prev.tokens) = 2
    /\ prev.display = <<"5">>
    /\ display = <<"5">>
    /\ Len(tokens) = 2
    /\ tokens[2] = OpToken(lastKey)

\* C19: just-evaluated true implies an empty pending sequence; every
\* evaluate leaves the sequence empty and the flag true; an operation that
\* makes the sequence non-empty leaves the flag false.
C19_FlagImpliesEmpty ==
    /\ justEvaluated => tokens = <<>>
    /\ lastKey = "=" => (tokens = <<>> /\ justEvaluated)
    /\ (prev.tokens = <<>> /\ tokens # <<>>) => ~justEvaluated

\* C19 case: evaluate on a non-empty pending sequence.
C19_Witness ==
    /\ lastKey = "="
    /\ prev.tokens # <<>>
    /\ tokens = <<>>
    /\ justEvaluated

\* C20: inputDigit, inputDecimal, backspace, toggleSign and percent leave
\* the pending sequence as it was; toggleSign and percent leave the flag as
\* it was; a digit entered with the flag true replaces the buffer and resets
\* the flag.
C20_EditingFrame ==
    /\ (IsDigit(lastKey) \/ lastKey \in {".", "back", "sign", "%"})
          => tokens = prev.tokens
    /\ lastKey \in {"sign", "%"} => justEvaluated = prev.justEvaluated
    /\ (IsDigit(lastKey) /\ prev.justEvaluated)
          => (display = <<lastKey>> /\ ~justEvaluated)

\* C20 case: a digit entered on a displayed result whose sign was toggled
\* ("-Error", the flag still true).
C20_Witness ==
    /\ IsDigit(lastKey)
    /\ prev.justEvaluated
    /\ prev.display = <<"-">> \o ErrorText
    /\ display = <<lastKey>>
    /\ ~justEvaluated

====
